---- MODULE Spec2Model ----
(***************************************************************************)
(* Model of alpaca_mcp_server.py: nine MCP tool handlers, each a           *)
(* try/except around  construct client -> map enum -> one backend call ->  *)
(* format  (in the order the source lists them).                           *)
(*                                                                         *)
(* Text is modelled as a sequence of tokens (Seq(STRING)).  A literal of   *)
(* an f-string is one token; caller-supplied side/status strings and       *)
(* formatted numbers are sequences of one-character tokens, so that        *)
(* str.lower(), str.capitalize() and the ":.2f" conversion are computed.   *)
(***************************************************************************)
EXTENDS Integers, Sequences, FiniteSets, TLC

VARIABLES inv, trading_client, stock_client, openOrders, last

vars == <<inv, trading_client, stock_client, openOrders, last>>

(***************************************************************************)
(* Bounds of the model.                                                    *)
(***************************************************************************)
\* number of invocation slots (callers that may be inside a handler)
NInv == 2
\* the backend holds at most this many open orders
MaxOrders == 2

Invs == 1..NInv

(***************************************************************************)
(* str.lower() / str.capitalize() on one-character tokens.                 *)
(***************************************************************************)
UpperChars == <<"A","B","C","D","E","F","G","H","I","J","K","L","M",
                "N","O","P","Q","R","S","T","U","V","W","X","Y","Z">>
LowerChars == <<"a","b","c","d","e","f","g","h","i","j","k","l","m",
                "n","o","p","q","r","s","t","u","v","w","x","y","z">>

LowerChar(c) ==
    IF \E k \in 1..Len(UpperChars) : UpperChars[k] = c
    THEN LowerChars[CHOOSE k \in 1..Len(UpperChars) : UpperChars[k] = c]
    ELSE c

UpperChar(c) ==
    IF \E k \in 1..Len(LowerChars) : LowerChars[k] = c
    THEN UpperChars[CHOOSE k \in 1..Len(LowerChars) : LowerChars[k] = c]
    ELSE c

\* s.lower()
Lower(s) == [k \in 1..Len(s) |-> LowerChar(s[k])]

\* s.capitalize(): first character upper-cased, the rest lower-cased
Capitalize(s) ==
    [k \in 1..Len(s) |-> IF k = 1 THEN UpperChar(s[k]) ELSE LowerChar(s[k])]

(***************************************************************************)
(* Numbers.  A backend decimal is an integer count of ten-thousandths      *)
(* (Dec(123456) is "12.3456"), or None.  float() of it is the nearest IEEE *)
(* double; the double is represented exactly by the decimal it was parsed  *)
(* from together with the sign of the parse error (eps): with at most four *)
(* decimals and magnitudes below 2^17 the error is far below 10^-4, so the *)
(* sign is all that ":.2f" can observe, and only at a half-way decimal.    *)
(***************************************************************************)
Scale == 100 * 100

Dec(d) == [none |-> FALSE, d |-> d]
None == [none |-> TRUE, d |-> 0]

Abs(x) == IF x < 0 THEN -x ELSE x

RECURSIVE Pow2(_)
Pow2(k) == IF k = 0 THEN 1 ELSE 2 * Pow2(k - 1)

\* 2^k mod m, without leaving 32-bit integers
RECURSIVE PowMod2(_, _)
PowMod2(k, m) == IF k = 0 THEN 1 % m ELSE (2 * PowMod2(k - 1, m)) % m

\* the binary exponent j of a positive decimal a/Scale: 2^j <= a/Scale < 2^(j+1)
Exponent(a) ==
    IF a >= Scale
    THEN CHOOSE j \in 0..16 : Scale * Pow2(j) <= a /\ a < Scale * Pow2(j + 1)
    ELSE -(CHOOSE j \in 1..14 : Scale <= a * Pow2(j) /\ a * Pow2(j - 1) < Scale)

\* float(x): round a/Scale to a 53-bit significand, ties to even; the result
\* is the sign of (double - decimal)
ParseEps(a) ==
    IF a = 0 THEN 0
    ELSE LET k == 52 - Exponent(a)
             r2 == ((a % (2 * Scale)) * PowMod2(k, 2 * Scale)) % (2 * Scale)
             r == r2 % Scale
             odd == r2 >= Scale
         IN  IF r = 0 THEN 0
             ELSE IF 2 * r < Scale THEN -1
             ELSE IF 2 * r > Scale THEN 1
             ELSE IF odd THEN 1 ELSE -1

\* float(value) of a backend decimal (TypeError for None is raised by the caller)
Float(v) == [neg |-> v.d < 0, mag |-> Abs(v.d), eps |-> ParseEps(Abs(v.d))]

\* x * 100 for a double x: the product has at most two decimals, so it is
\* never half-way between two cents and the error sign is immaterial
Times100(f) == [neg |-> f.neg, mag |-> f.mag * 100, eps |-> 0]

Digits == <<"0","1","2","3","4","5","6","7","8","9">>

RECURSIVE IntToChars(_)
IntToChars(n) ==
    IF n < 10 THEN <<Digits[n + 1]>>
    ELSE IntToChars(n \div 10) \o <<Digits[(n % 10) + 1]>>

\* faulty variant of Cents: half-way cases always rounded up
CentsHalfUp(f) ==
    IF f.mag % 100 >= 50 THEN f.mag \div 100 + 1 ELSE f.mag \div 100

\* the number of hundredths ":.2f" prints for the magnitude of f: the exact
\* binary value rounded to nearest, an exact tie going to the even neighbour
Cents(f) ==
    LET c0 == f.mag \div 100
        rem == f.mag % 100
    IN  IF rem < 50 THEN c0
        ELSE IF rem > 50 THEN c0 + 1
        ELSE IF f.eps > 0 THEN c0 + 1
        ELSE IF f.eps < 0 THEN c0
        ELSE IF c0 % 2 = 0 THEN c0 ELSE c0 + 1

\* f"{x:.2f}"
Format2f(f) ==
    LET c == Cents(f)
    IN  (IF f.neg THEN <<"-">> ELSE <<>>)
        \o IntToChars(c \div 100)
        \o <<".", Digits[((c \div 10) % 10) + 1], Digits[(c % 10) + 1]>>


(***************************************************************************)
(* The nine tools and the shape of their bodies.                           *)
(***************************************************************************)
Ops == {"get_account_info", "get_positions", "get_stock_quote", "get_stock_bars",
        "get_orders", "place_market_order", "place_limit_order",
        "cancel_all_orders", "close_all_positions"}

PlaceOps == {"place_market_order", "place_limit_order"}
EnumOps == PlaceOps \cup {"get_orders"}
DataOps == {"get_stock_quote", "get_stock_bars"}

\* which client class the body constructs
Service(op) == IF op \in DataOps THEN "data" ELSE "trading"

\* the statements of a body, in source order
Program(op) ==
    IF op \in EnumOps
    THEN <<"construct", "map", "call", "format">>
    ELSE <<"construct", "call", "format">>

NextStep(op, s) ==
    LET p == Program(op)
        k == CHOOSE n \in 1..Len(p) : p[n] = s
    IN  IF k = Len(p) THEN "done" ELSE p[k + 1]

\* the client method each body calls
Method(op) ==
    CASE op = "get_account_info"    -> "get_account"
      [] op = "get_positions"       -> "get_all_positions"
      [] op = "get_stock_quote"     -> "get_stock_latest_quote"
      [] op = "get_stock_bars"      -> "get_stock_bars"
      [] op = "get_orders"          -> "get_orders"
      [] op = "place_market_order"  -> "submit_order"
      [] op = "place_limit_order"   -> "submit_order"
      [] op = "cancel_all_orders"   -> "cancel_orders"
      [] op = "close_all_positions" -> "close_all_positions"

\* the text before str(e) in each body's except clause
ErrPrefix(op, a) ==
    CASE op = "get_account_info"    -> <<"Error getting account info: ">>
      [] op = "get_positions"       -> <<"Error getting positions: ">>
      [] op = "get_stock_quote"     -> <<"Error fetching quote for ">> \o a.symbol \o <<": ">>
      [] op = "get_stock_bars"      -> <<"Error fetching historical data for ">> \o a.symbol \o <<": ">>
      [] op = "get_orders"          -> <<"Error fetching orders: ">>
      [] op = "place_market_order"  -> <<"Error placing market order: ">>
      [] op = "place_limit_order"   -> <<"Error placing limit order: ">>
      [] op = "cancel_all_orders"   -> <<"Error canceling orders: ">>
      [] op = "close_all_positions" -> <<"Error closing positions: ">>

(***************************************************************************)
(* Client handles.  owner identifies the object: 0 for the two module-level*)
(* clients built at import time, the invocation slot for a client built    *)
(* inside a handler.                                                       *)
(***************************************************************************)
API_KEY == "env_key"
API_SECRET == "env_secret"
PAPER == TRUE

NoClient == [kind |-> "none", api_key |-> "", api_secret |-> "", paper |-> FALSE, owner |-> -1]

TradingClient(api_key, api_secret, paper, owner) ==
    [kind |-> "trading", api_key |-> api_key, api_secret |-> api_secret,
     paper |-> paper, owner |-> owner]

StockHistoricalDataClient(api_key, api_secret, owner) ==
    [kind |-> "data", api_key |-> api_key, api_secret |-> api_secret,
     paper |-> FALSE, owner |-> owner]

\* the client library rejects a missing key or secret when a client is built
CtorRaises(api_key, api_secret) == api_key = "" \/ api_secret = ""
CtorMsg == <<"You must supply a method of authentication">>

(***************************************************************************)
(* Enum mapping (the if/elif/else chains on status.lower(), side.lower()). *)
(***************************************************************************)

\* faulty variant of MapStatus: the comparison without .lower()
MapStatusCaseSensitive(status) ==
    IF status = <<"o","p","e","n">> THEN "QueryOrderStatus.OPEN"
    ELSE IF status = <<"c","l","o","s","e","d">> THEN "QueryOrderStatus.CLOSED"
    ELSE "QueryOrderStatus.ALL"

MapStatus(status) ==
    IF Lower(status) = <<"o","p","e","n">> THEN "QueryOrderStatus.OPEN"
    ELSE IF Lower(status) = <<"c","l","o","s","e","d">> THEN "QueryOrderStatus.CLOSED"
    ELSE "QueryOrderStatus.ALL"

\* "" stands for the branch that returns the invalid-side text
MapSide(side) ==
    IF Lower(side) = <<"b","u","y">> THEN "OrderSide.BUY"
    ELSE IF Lower(side) = <<"s","e","l","l">> THEN "OrderSide.SELL"
    ELSE ""

InvalidSideText(side) ==
    <<"Invalid order side: ">> \o side \o <<". Must be 'buy' or 'sell'.">>

(***************************************************************************)
(* Invocation records.                                                     *)
(***************************************************************************)
NoResp == [kind |-> "none"]

IdleInv ==
    [op |-> "none", pc |-> "idle",
     args |-> [api_key |-> "", api_secret |-> "", paper |-> TRUE, symbol |-> <<>>,
               side |-> <<>>, status |-> <<>>, limit |-> 0, days |-> 0,
               quantity |-> <<>>, limit_price |-> None, cancel_orders |-> TRUE],
     trading_client |-> NoClient, stock_client |-> NoClient,
     query_status |-> "", order_side |-> "",
     resp |-> NoResp, calls |-> <<>>, trace |-> <<>>,
     failed |-> "none", result |-> <<>>]

NoLast == [op |-> "none", api_key |-> "", api_secret |-> "", paper |-> TRUE]

\* faulty variant of Except: the message returned without the operation's prefix
ExceptBare(r, where, msg) ==
    [r EXCEPT !.pc = "done", !.failed = where, !.result = msg]

\* the except clause of every body: return f"Error ...: {str(e)}"
Except(r, where, msg) ==
    [r EXCEPT !.pc = "done", !.failed = where,
              !.result = ErrPrefix(r.op, r.args) \o msg]

\* faulty variant of ClientUsed: the body reads the module-level clients
ClientUsedGlobal(r) ==
    IF Service(r.op) = "data" THEN stock_client ELSE trading_client

\* the name trading_client / stock_client inside a body is the body's local
ClientUsed(r) ==
    IF Service(r.op) = "data" THEN r.stock_client ELSE r.trading_client


(***************************************************************************)
(* What the backend may answer.  The backend is external: every call may   *)
(* raise, or return one of a few sample values.                            *)
(***************************************************************************)
BackendMsg == <<"forbidden.">>
TypeErrorMsg == <<"float() argument must be a string or a real number, not 'NoneType'">>

Symbols == {<<"AAPL">>}

\* decimals chosen to cover: whole numbers, more than two decimals, an exact
\* binary tie (150.125), inexact half-way decimals (0.005, 2.675), a negative
MoneyDecs == {Dec(1000000), Dec(123456), Dec(1501250), Dec(50), Dec(-26750)}

AccountOf(v) ==
    [id |-> <<"acct-1">>, status |-> <<"AccountStatus.ACTIVE">>, currency |-> <<"USD">>,
     buying_power |-> v, cash |-> v, portfolio_value |-> v, equity |-> v,
     long_market_value |-> v, short_market_value |-> Dec(0),
     pattern_day_trader |-> FALSE, daytrade_count |-> <<"0">>]

Accounts == {AccountOf(v) : v \in {Dec(1000000), Dec(123456), None}}

PositionOf(v, pl) ==
    [symbol |-> <<"AAPL">>, qty |-> <<"10">>, market_value |-> v,
     avg_entry_price |-> Dec(1501250), current_price |-> v,
     unrealized_pl |-> pl, unrealized_plpc |-> Dec(125)]

PositionLists ==
    {<<>>,
     <<PositionOf(Dec(1501250), Dec(50))>>,
     <<PositionOf(Dec(123456), Dec(-26750)), PositionOf(Dec(1000000), Dec(50))>>}

QuoteOf(v) ==
    [ask_price |-> Float(v), bid_price |-> Float(Dec(1501000)),
     ask_size |-> <<"3">>, bid_size |-> <<"5">>, timestamp |-> <<"T">>]

\* a dict symbol -> quote: the symbol is either absent or present
QuoteDicts(symbol) ==
    {<<>>} \cup {[s \in {symbol} |-> QuoteOf(v)] : v \in MoneyDecs}

BarOf(v) ==
    [date |-> <<"2024-01-02">>, open |-> Float(v), high |-> Float(Dec(1501250)),
     low |-> Float(Dec(123456)), close |-> Float(v), volume |-> <<"1000">>]

BarDicts(symbol) ==
    {<<>>, [s \in {symbol} |-> <<>>],
     [s \in {symbol} |-> <<BarOf(Dec(1000000))>>],
     [s \in {symbol} |-> <<BarOf(Dec(50)), BarOf(Dec(123456))>>]}

NoTime == [none |-> TRUE, s |-> <<>>]
TimeOf(s) == [none |-> FALSE, s |-> s]

ListedOrder(id, side, filled_at, filled_avg_price) ==
    [symbol |-> <<"AAPL">>, id |-> id, type |-> <<"OrderType.MARKET">>, side |-> side,
     qty |-> <<"1">>, status |-> <<"OrderStatus.FILLED">>, submitted_at |-> <<"T0">>,
     filled_at |-> filled_at, filled_avg_price |-> filled_avg_price]

\* at most `limit` orders come back
OrderLists(limit) ==
    {l \in {<<>>,
            <<ListedOrder(<<"o1">>, <<"OrderSide.BUY">>, TimeOf(<<"T1">>), Dec(1501250))>>,
            <<ListedOrder(<<"o1">>, <<"OrderSide.BUY">>, NoTime, None),
              ListedOrder(<<"o2">>, <<"OrderSide.SELL">>, TimeOf(<<"T1">>), Dec(123456))>>}
       : Len(l) <= limit}

\* the order the backend creates for a request
CreatedOrder(params, limit_price) ==
    [id |-> <<"o-new">>, symbol |-> params.symbol, side |-> <<params.side>>,
     qty |-> params.qty, type |-> <<params.type>>, limit_price |-> limit_price,
     time_in_force |-> <<params.time_in_force>>, status |-> <<"OrderStatus.ACCEPTED">>]

RECURSIVE CancelStatuses(_)
CancelStatuses(n) ==
    IF n = 0 THEN <<>>
    ELSE CancelStatuses(n - 1) \o <<[id |-> <<"o", Digits[n + 1]>>, status |-> <<"200">>]>>

Raise(open) == [resp |-> [kind |-> "raise", msg |-> BackendMsg], open |-> open]
Ok(value, open) == [resp |-> [kind |-> "ok", value |-> value], open |-> open]

\* the outcomes of one backend call, each with the backend's open-order count after it
Outcomes(method, params, open) ==
    {Raise(open)} \cup
    CASE method = "get_account" -> {Ok(v, open) : v \in Accounts}
      [] method = "get_all_positions" -> {Ok(v, open) : v \in PositionLists}
      [] method = "get_stock_latest_quote" -> {Ok(v, open) : v \in QuoteDicts(params.symbol)}
      [] method = "get_stock_bars" -> {Ok(v, open) : v \in BarDicts(params.symbol)}
      [] method = "get_orders" -> {Ok(v, open) : v \in OrderLists(params.limit)}
      [] method = "submit_order" ->
            IF open >= MaxOrders THEN {}
            ELSE {Ok(CreatedOrder(params, lp), open + 1)
                    : lp \in IF params.type = "OrderType.LIMIT"
                             THEN {params.limit_price, None} ELSE {None}}
      [] method = "cancel_orders" -> {Ok(CancelStatuses(open), 0)}
      [] method = "close_all_positions" ->
            {Ok(<<>>, IF params.cancel_orders THEN 0 ELSE open)}

\* the request object each body builds for its call
Request(r) ==
    LET a == r.args IN
    CASE r.op = "get_stock_quote" -> [symbol |-> a.symbol]
      [] r.op = "get_stock_bars" -> [symbol |-> a.symbol, timeframe |-> "TimeFrame.Day", days |-> a.days]
      [] r.op = "get_orders" -> [status |-> r.query_status, limit |-> a.limit]
      [] r.op = "place_market_order" ->
            [type |-> "OrderType.MARKET", symbol |-> a.symbol, qty |-> a.quantity,
             side |-> r.order_side, time_in_force |-> "TimeInForce.DAY"]
      [] r.op = "place_limit_order" ->
            [type |-> "OrderType.LIMIT", symbol |-> a.symbol, qty |-> a.quantity,
             side |-> r.order_side, time_in_force |-> "TimeInForce.DAY",
             limit_price |-> a.limit_price]
      [] r.op = "close_all_positions" -> [cancel_orders |-> a.cancel_orders]
      [] OTHER -> [none |-> TRUE]


(***************************************************************************)
(* Formatting: the f-strings of the bodies.  Each renderer yields          *)
(* [ok, text]; ok = FALSE carries the message of the exception raised      *)
(* while formatting (float(None) is a TypeError).                          *)
(***************************************************************************)
Rendered(text) == [ok |-> TRUE, text |-> text]
RenderFails(msg) == [ok |-> FALSE, text |-> msg]

\* f"${float(v):.2f}"
Money(v) == <<"$">> \o Format2f(Float(v))
\* f"${x:.2f}" for a value that already is a float
MoneyF(x) == <<"$">> \o Format2f(x)

RenderAccount(account) ==
    IF \E v \in {account.buying_power, account.cash, account.portfolio_value,
                 account.equity, account.long_market_value,
                 account.short_market_value} : v.none
    THEN RenderFails(TypeErrorMsg)
    ELSE Rendered(
        <<"\nAccount Information:\n-------------------\nAccount ID: ">> \o account.id
        \o <<"\nStatus: ">> \o account.status
        \o <<"\nCurrency: ">> \o account.currency
        \o <<"\nBuying Power: ">> \o Money(account.buying_power)
        \o <<"\nCash: ">> \o Money(account.cash)
        \o <<"\nPortfolio Value: ">> \o Money(account.portfolio_value)
        \o <<"\nEquity: ">> \o Money(account.equity)
        \o <<"\nLong Market Value: ">> \o Money(account.long_market_value)
        \o <<"\nShort Market Value: ">> \o Money(account.short_market_value)
        \o <<"\nPattern Day Trader: ", IF account.pattern_day_trader THEN "Yes" ELSE "No">>
        \o <<"\nDay Trades Remaining: ">> \o account.daytrade_count \o <<"\n">>)

PositionBlock(position) ==
    <<"\nSymbol: ">> \o position.symbol
    \o <<"\nQuantity: ">> \o position.qty \o <<" shares">>
    \o <<"\nMarket Value: ">> \o Money(position.market_value)
    \o <<"\nAverage Entry Price: ">> \o Money(position.avg_entry_price)
    \o <<"\nCurrent Price: ">> \o Money(position.current_price)
    \o <<"\nUnrealized P/L: ">> \o Money(position.unrealized_pl)
    \o <<" (">> \o Format2f(Times100(Float(position.unrealized_plpc)))
    \o <<"%)\n-------------------\n">>

RECURSIVE PositionBlocks(_)
PositionBlocks(ps) ==
    IF ps = <<>> THEN <<>> ELSE PositionBlock(Head(ps)) \o PositionBlocks(Tail(ps))

RenderPositions(positions) ==
    IF Len(positions) = 0
    THEN Rendered(<<"No open positions found.">>)
    ELSE IF \E k \in 1..Len(positions) :
              \E v \in {positions[k].market_value, positions[k].avg_entry_price,
                        positions[k].current_price, positions[k].unrealized_pl,
                        positions[k].unrealized_plpc} : v.none
    THEN RenderFails(TypeErrorMsg)
    ELSE Rendered(<<"Current Positions:\n-------------------\n">> \o PositionBlocks(positions))

RenderQuote(symbol, quotes) ==
    IF symbol \in DOMAIN quotes
    THEN LET quote == quotes[symbol] IN
         Rendered(<<"\nLatest Quote for ">> \o symbol
                  \o <<":\n------------------------\nAsk Price: ">> \o MoneyF(quote.ask_price)
                  \o <<"\nBid Price: ">> \o MoneyF(quote.bid_price)
                  \o <<"\nAsk Size: ">> \o quote.ask_size
                  \o <<"\nBid Size: ">> \o quote.bid_size
                  \o <<"\nTimestamp: ">> \o quote.timestamp \o <<"\n">>)
    ELSE Rendered(<<"No quote data found for ">> \o symbol \o <<".">>)

BarLine(bar) ==
    <<"Date: ">> \o bar.date
    \o <<", Open: ">> \o MoneyF(bar.open) \o <<", High: ">> \o MoneyF(bar.high)
    \o <<", Low: ">> \o MoneyF(bar.low) \o <<", Close: ">> \o MoneyF(bar.close)
    \o <<", Volume: ">> \o bar.volume \o <<"\n">>

RECURSIVE BarLines(_)
BarLines(bs) == IF bs = <<>> THEN <<>> ELSE BarLine(Head(bs)) \o BarLines(Tail(bs))

\* faulty variant of RenderBars: an empty bar list is not told from a missing symbol
RenderBarsNoEmptyTest(symbol, days, bars) ==
    IF symbol \in DOMAIN bars
    THEN Rendered(<<"Historical Data for ">> \o symbol \o <<" (Last ">> \o IntToChars(days)
                  \o <<" trading days):\n",
                       "---------------------------------------------------\n">>
                  \o BarLines(bars[symbol]))
    ELSE Rendered(<<"No historical data found for ">> \o symbol \o <<" in the last ">>
                  \o IntToChars(days) \o <<" days.">>)

RenderBars(symbol, days, bars) ==
    IF symbol \in DOMAIN bars /\ Len(bars[symbol]) > 0
    THEN Rendered(<<"Historical Data for ">> \o symbol \o <<" (Last ">> \o IntToChars(days)
                  \o <<" trading days):\n",
                       "---------------------------------------------------\n">>
                  \o BarLines(bars[symbol]))
    ELSE Rendered(<<"No historical data found for ">> \o symbol \o <<" in the last ">>
                  \o IntToChars(days) \o <<" days.">>)

OrderBlock(order) ==
    <<"\nSymbol: ">> \o order.symbol \o <<"\nID: ">> \o order.id
    \o <<"\nType: ">> \o order.type \o <<"\nSide: ">> \o order.side
    \o <<"\nQuantity: ">> \o order.qty \o <<"\nStatus: ">> \o order.status
    \o <<"\nSubmitted At: ">> \o order.submitted_at \o <<"\n">>
    \o (IF ~order.filled_at.none
        THEN <<"Filled At: ">> \o order.filled_at.s \o <<"\n">> ELSE <<>>)
    \o (IF ~order.filled_avg_price.none
        THEN <<"Filled Price: ">> \o Money(order.filled_avg_price) \o <<"\n">> ELSE <<>>)
    \o <<"-----------------------------------\n">>

RECURSIVE OrderBlocks(_)
OrderBlocks(os) == IF os = <<>> THEN <<>> ELSE OrderBlock(Head(os)) \o OrderBlocks(Tail(os))

RenderOrders(status, orders) ==
    IF Len(orders) = 0
    THEN Rendered(<<"No ">> \o status \o <<" orders found.">>)
    ELSE Rendered(Capitalize(status) \o <<" Orders (Last ">> \o IntToChars(Len(orders))
                  \o <<"):\n", "-----------------------------------\n">>
                  \o OrderBlocks(orders))

RenderMarketOrder(order) ==
    Rendered(<<"\nMarket Order Placed Successfully:\n--------------------------------\nOrder ID: ">>
             \o order.id \o <<"\nSymbol: ">> \o order.symbol \o <<"\nSide: ">> \o order.side
             \o <<"\nQuantity: ">> \o order.qty \o <<"\nType: ">> \o order.type
             \o <<"\nTime In Force: ">> \o order.time_in_force
             \o <<"\nStatus: ">> \o order.status \o <<"\n">>)

RenderLimitOrder(order) ==
    IF order.limit_price.none
    THEN RenderFails(TypeErrorMsg)
    ELSE Rendered(<<"\nLimit Order Placed Successfully:\n-------------------------------\nOrder ID: ">>
             \o order.id \o <<"\nSymbol: ">> \o order.symbol \o <<"\nSide: ">> \o order.side
             \o <<"\nQuantity: ">> \o order.qty \o <<"\nType: ">> \o order.type
             \o <<"\nLimit Price: ">> \o Money(order.limit_price)
             \o <<"\nTime In Force: ">> \o order.time_in_force
             \o <<"\nStatus: ">> \o order.status \o <<"\n">>)

\* str(cancel_statuses): the list the backend returned, item by item
RECURSIVE StrItems(_)
StrItems(l) ==
    IF l = <<>> THEN <<>>
    ELSE <<"(">> \o Head(l).id \o <<", ">> \o Head(l).status \o <<")">> \o StrItems(Tail(l))

StrList(l) == <<"[">> \o StrItems(l) \o <<"]">>

\* faulty variant of RenderCancel: the statuses of the call are left out of the text
RenderCancelNoStatus(cancel_statuses) ==
    Rendered(<<"Successfully canceled all open orders. Status: ">> \o StrList(<<>>))

RenderCancel(cancel_statuses) ==
    Rendered(<<"Successfully canceled all open orders. Status: ">> \o StrList(cancel_statuses))

RenderClose == Rendered(<<"Successfully closed all positions.">>)

\* the statements between the backend call and the return of each body
Render(op, a, value) ==
    CASE op = "get_account_info"    -> RenderAccount(value)
      [] op = "get_positions"       -> RenderPositions(value)
      [] op = "get_stock_quote"     -> RenderQuote(a.symbol, value)
      [] op = "get_stock_bars"      -> RenderBars(a.symbol, a.days, value)
      [] op = "get_orders"          -> RenderOrders(a.status, value)
      [] op = "place_market_order"  -> RenderMarketOrder(value)
      [] op = "place_limit_order"   -> RenderLimitOrder(value)
      [] op = "cancel_all_orders"   -> RenderCancel(value)
      [] op = "close_all_positions" -> RenderClose


(***************************************************************************)
(* Caller inputs.                                                          *)
(***************************************************************************)
Credentials ==
    {[api_key |-> "", api_secret |-> "", paper |-> TRUE],
     [api_key |-> "key1", api_secret |-> "secret1", paper |-> TRUE],
     [api_key |-> "key2", api_secret |-> "secret2", paper |-> FALSE]}

Sides == {<<"b","u","y">>, <<"S","E","L","L">>, <<"B","u","y">>,
          <<"h","o","l","d">>, <<"b","u","y","s">>}

Statuses == {<<"o","p","e","n">>, <<"O","P","E","N">>, <<"C","l","o","s","e","d">>,
             <<"a","l","l">>, <<"f","i","l","l","e","d">>}

Limits == {1, 3}

WithCreds(c) ==
    [IdleInv.args EXCEPT !.api_key = c.api_key, !.api_secret = c.api_secret,
                         !.paper = c.paper]

\* every call a caller can make, within the input sets above
Inputs ==
    {[op |-> op, args |-> WithCreds(c)]
        : op \in {"get_account_info", "get_positions", "cancel_all_orders"},
          c \in Credentials}
    \cup {[op |-> "close_all_positions", args |-> [WithCreds(c) EXCEPT !.cancel_orders = b]]
        : c \in Credentials, b \in BOOLEAN}
    \cup {[op |-> "get_stock_quote", args |-> [WithCreds(c) EXCEPT !.symbol = y]]
        : c \in Credentials, y \in Symbols}
    \cup {[op |-> "get_stock_bars", args |-> [WithCreds(c) EXCEPT !.symbol = y, !.days = 5]]
        : c \in Credentials, y \in Symbols}
    \cup {[op |-> "get_orders", args |-> [WithCreds(c) EXCEPT !.status = st, !.limit = n]]
        : c \in Credentials, st \in Statuses, n \in Limits}
    \cup {[op |-> "place_market_order",
           args |-> [WithCreds(c) EXCEPT !.symbol = y, !.side = sd, !.quantity = <<"1">>]]
        : c \in Credentials, sd \in Sides, y \in Symbols}
    \cup {[op |-> "place_limit_order",
           args |-> [WithCreds(c) EXCEPT !.symbol = y, !.side = sd, !.quantity = <<"1">>,
                                         !.limit_price = Dec(1501250)]]
        : c \in Credentials, sd \in Sides, y \in Symbols}

\* the calls made by concurrent callers: one call of each shape of body
\* (trading, data, enum-mapping), under two different credentials
ConcInputs ==
    {in \in Inputs :
        /\ in.op \in {"get_positions", "get_stock_quote", "place_market_order"}
        /\ in.args.api_key # ""
        /\ in.args.side \in {<<>>, <<"b","u","y">>}}

(***************************************************************************)
(* The state machine.                                                      *)
(***************************************************************************)
Init ==
    /\ inv = [i \in Invs |-> IdleInv]
    /\ trading_client = TradingClient(API_KEY, API_SECRET, PAPER, 0)
    /\ stock_client = StockHistoricalDataClient(API_KEY, API_SECRET, 0)
    /\ openOrders = 0
    /\ last = NoLast

\* the runtime enters a handler with the caller's arguments
Start(i, in) ==
    /\ inv[i].pc = "idle"
    /\ inv' = [inv EXCEPT ![i] = [IdleInv EXCEPT !.op = in.op, !.args = in.args,
                                                 !.pc = Program(in.op)[1]]]
    /\ UNCHANGED <<trading_client, stock_client, openOrders, last>>

\* one handler at a time, as on the event loop: the bodies never await
StartSeq(i) ==
    /\ \A j \in Invs : inv[j].pc = "idle"
    /\ \E in \in Inputs : Start(i, in)

\* handlers entered while others are still inside their bodies
StartConc(i) == \E in \in ConcInputs : Start(i, in)

\* the record after the first statement of a body: the client constructor
Constructed(r, i) ==
    LET a == r.args
        t == [r EXCEPT !.trace = Append(@, "construct")]
    IN  IF CtorRaises(a.api_key, a.api_secret)
        THEN Except(t, "construct", CtorMsg)
        ELSE IF Service(r.op) = "data"
        THEN [t EXCEPT !.stock_client = StockHistoricalDataClient(a.api_key, a.api_secret, i),
                       !.pc = NextStep(r.op, "construct")]
        ELSE [t EXCEPT !.trading_client = TradingClient(a.api_key, a.api_secret, a.paper, i),
                       !.pc = NextStep(r.op, "construct")]

Construct(i) ==
    /\ inv[i].pc = "construct"
    /\ inv' = [inv EXCEPT ![i] = Constructed(inv[i], i)]
    /\ UNCHANGED <<trading_client, stock_client, openOrders, last>>

\* the record after the if/elif/else on status.lower() or side.lower()
Mapped(r) ==
    LET t == [r EXCEPT !.trace = Append(@, "map")]
    IN  IF r.op = "get_orders"
        THEN [t EXCEPT !.query_status = MapStatus(r.args.status),
                       !.pc = NextStep(r.op, "map")]
        ELSE IF MapSide(r.args.side) = ""
        THEN [t EXCEPT !.pc = "done", !.failed = "map",
                       !.result = InvalidSideText(r.args.side)]
        ELSE [t EXCEPT !.order_side = MapSide(r.args.side),
                       !.pc = NextStep(r.op, "map")]

MapEnum(i) ==
    /\ inv[i].pc = "map"
    /\ inv' = [inv EXCEPT ![i] = Mapped(inv[i])]
    /\ UNCHANGED <<trading_client, stock_client, openOrders, last>>

\* faulty variant of AfterRaise: a failed backend call is attempted once more
AfterRaiseRetry(r, msg) ==
    IF Len(r.calls) < 2 THEN r ELSE Except(r, "call", msg)

\* the record after the backend call raised: control goes to the except clause
AfterRaise(r, msg) == Except(r, "call", msg)

\* the record after the backend call came back with `resp`
Called(r, resp) ==
    LET t == [r EXCEPT !.trace = Append(@, "call"),
                       !.calls = Append(@, [service |-> Service(r.op),
                                            method |-> Method(r.op),
                                            client |-> ClientUsed(r),
                                            params |-> Request(r)])]
    IN  IF resp.kind = "raise"
        THEN AfterRaise(t, resp.msg)
        ELSE [t EXCEPT !.resp = resp, !.pc = NextStep(r.op, "call")]

BackendCall(i) ==
    /\ inv[i].pc = "call"
    /\ \E out \in Outcomes(Method(inv[i].op), Request(inv[i]), openOrders) :
          /\ inv' = [inv EXCEPT ![i] = Called(inv[i], out.resp)]
          /\ openOrders' = out.open
    /\ UNCHANGED <<trading_client, stock_client, last>>

\* the record after the rest of the body: the result is returned, or the
\* exception raised while formatting reaches the except clause
Formatted(r) ==
    LET t == [r EXCEPT !.trace = Append(@, "format")]
        out == Render(r.op, r.args, r.resp.value)
    IN  IF out.ok
        THEN [t EXCEPT !.pc = "done", !.result = out.text]
        ELSE Except(t, "format", out.text)

Format(i) ==
    /\ inv[i].pc = "format"
    /\ inv' = [inv EXCEPT ![i] = Formatted(inv[i])]
    /\ UNCHANGED <<trading_client, stock_client, openOrders, last>>

\* the caller receives the string; nothing of the invocation is kept
Return(i) ==
    /\ inv[i].pc = "done"
    /\ last' = [op |-> inv[i].op, api_key |-> inv[i].args.api_key,
                api_secret |-> inv[i].args.api_secret, paper |-> inv[i].args.paper]
    /\ inv' = [inv EXCEPT ![i] = IdleInv]
    /\ UNCHANGED <<trading_client, stock_client, openOrders>>

Next ==
    \E i \in Invs :
        \/ StartSeq(i)
        \/ Construct(i)
        \/ MapEnum(i)
        \/ BackendCall(i)
        \/ Format(i)
        \/ Return(i)

Spec == Init /\ [][Next]_vars

NextConc ==
    \E i \in Invs :
        \/ StartConc(i)
        \/ Construct(i)
        \/ MapEnum(i)
        \/ BackendCall(i)
        \/ Format(i)

SpecConc == Init /\ [][NextConc]_vars


(***************************************************************************)
(* Properties.                                                             *)
(***************************************************************************)
Done(i) == inv[i].pc = "done"

\* case-insensitive equality, stated without str.lower()
EqIgnoreCase(s, t) ==
    /\ Len(s) = Len(t)
    /\ \A k \in 1..Len(s) : UpperChar(s[k]) = UpperChar(t[k])

IsBuyOrSell(side) ==
    EqIgnoreCase(side, <<"b","u","y">>) \/ EqIgnoreCase(side, <<"s","e","l","l">>)

\* the error text the specification gives each operation
ErrorText(op, symbol) ==
    CASE op = "get_account_info"    -> <<"Error getting account info: ">>
      [] op = "get_positions"       -> <<"Error getting positions: ">>
      [] op = "get_stock_quote"     -> <<"Error fetching quote for ">> \o symbol \o <<": ">>
      [] op = "get_stock_bars"      -> <<"Error fetching historical data for ">> \o symbol \o <<": ">>
      [] op = "get_orders"          -> <<"Error fetching orders: ">>
      [] op = "place_market_order"  -> <<"Error placing market order: ">>
      [] op = "place_limit_order"   -> <<"Error placing limit order: ">>
      [] op = "cancel_all_orders"   -> <<"Error canceling orders: ">>
      [] op = "close_all_positions" -> <<"Error closing positions: ">>

FailureMessage(where) ==
    CASE where = "construct" -> <<"You must supply a method of authentication">>
      [] where = "call"      -> <<"forbidden.">>
      [] where = "format"    ->
            <<"float() argument must be a string or a real number, not 'NoneType'">>

IsErrorText(r) ==
    /\ Len(r.result) > Len(ErrorText(r.op, r.args.symbol))
    /\ SubSeq(r.result, 1, Len(ErrorText(r.op, r.args.symbol)))
          = ErrorText(r.op, r.args.symbol)

SubmitCalls(r) == {k \in 1..Len(r.calls) : r.calls[k].method = "submit_order"}

\* C1 as stated: every invocation that ends returns a text, and whenever
\* input mapping, client construction, the backend call or formatting failed,
\* the text is "Error <operation description>: <failure message>".
C1_EveryFailureIsErrorText ==
    \A i \in Invs : Done(i) =>
        /\ inv[i].result # <<>>
        /\ inv[i].failed # "none" => IsErrorText(inv[i])

\* C1 amended: every invocation that ends returns a text; when client
\* construction, the backend call or formatting failed the text is the
\* operation's error prefix followed by the failure's message; when the side
\* of a place-order call is rejected the text is the invalid-side sentence;
\* and a text returned without a failure is not an error text.
C1_ErrorsBecomeText ==
    \A i \in Invs : Done(i) =>
        LET r == inv[i] IN
        /\ r.result # <<>>
        /\ r.failed \in {"construct", "call", "format"} =>
              r.result = ErrorText(r.op, r.args.symbol) \o FailureMessage(r.failed)
        /\ r.failed = "map" =>
              /\ r.op \in PlaceOps
              /\ r.result = <<"Invalid order side: ">> \o r.args.side
                            \o <<". Must be 'buy' or 'sell'.">>
        /\ r.failed = "none" => ~IsErrorText(r)

C1_Witness ==
    \E i \in Invs :
        /\ Done(i) /\ inv[i].op = "get_account_info" /\ inv[i].failed = "format"
        /\ inv[i].result[1] = "Error getting account info: "

\* C2 as stated: a place-order call whose side is neither "buy" nor "sell"
\* (ignoring case) returns exactly the invalid-side sentence, whatever the
\* credentials, and makes no submit_order call.
C2_InvalidSideForAllCredentials ==
    \A i \in Invs :
        (Done(i) /\ inv[i].op \in PlaceOps /\ ~IsBuyOrSell(inv[i].args.side)) =>
            /\ inv[i].result = <<"Invalid order side: ">> \o inv[i].args.side
                               \o <<". Must be 'buy' or 'sell'.">>
            /\ SubmitCalls(inv[i]) = {}

\* C3 as stated: in get_orders and the place-order operations the steps run
\* in the order mapping, client construction, backend call, formatting.
C3_MappingBeforeConstruction ==
    \A i \in Invs : inv[i].op \in EnumOps =>
        \E n \in 0..4 :
            inv[i].trace = SubSeq(<<"map", "construct", "call", "format">>, 1, n)

\* C4: under any interleaving, each backend call of an invocation is made on
\* a client constructed inside that invocation from its own api_key,
\* api_secret and paper; never on a module-level client, never on a client
\* of another invocation.
C4_OwnClient ==
    \A i \in Invs : \A k \in 1..Len(inv[i].calls) :
        LET c == inv[i].calls[k].client
            a == inv[i].args
        IN  /\ c.owner = i
            /\ c.kind = (IF inv[i].op \in DataOps THEN "data" ELSE "trading")
            /\ c.api_key = a.api_key /\ c.api_secret = a.api_secret
            /\ c.kind = "trading" => c.paper = a.paper
            /\ c # trading_client /\ c # stock_client
            /\ \A j \in Invs \ {i} :
                  c # inv[j].trading_client /\ c # inv[j].stock_client

C4_Witness ==
    \E i, j \in Invs :
        /\ i # j
        /\ inv[i].pc = "format" /\ inv[j].pc = "format"
        /\ Len(inv[i].calls) = 1 /\ Len(inv[j].calls) = 1
        /\ inv[i].args.api_key # inv[j].args.api_key
        /\ inv[i].op = "get_positions" /\ inv[j].op = "get_stock_quote"

\* C5: an invocation makes at most one call to the trading service and at
\* most one to the market-data service; a call that fails is not retried:
\* the invocation has ended with the error text after that single attempt.
C5_AtMostOneCall ==
    \A i \in Invs :
        LET r == inv[i] IN
        /\ Cardinality({k \in 1..Len(r.calls) : r.calls[k].service = "trading"}) <= 1
        /\ Cardinality({k \in 1..Len(r.calls) : r.calls[k].service = "data"}) <= 1
        /\ r.failed = "call" =>
              /\ Done(i) /\ Len(r.calls) = 1
              /\ r.result = ErrorText(r.op, r.args.symbol) \o <<"forbidden.">>

C5_Witness ==
    \E i \in Invs :
        /\ Done(i) /\ inv[i].op = "cancel_all_orders" /\ inv[i].failed = "call"
        /\ Len(inv[i].calls) = 1

\* C6: get_orders maps status ignoring case ("open" -> OPEN, "closed" ->
\* CLOSED, anything else -> ALL), passes that filter and the caller's limit
\* unchanged to its single get_orders call, and when that call raises the
\* result starts with "Error fetching orders: ".
C6_OrdersFilter ==
    \A i \in Invs : (inv[i].op = "get_orders" /\ Len(inv[i].calls) > 0) =>
        LET r == inv[i]
            c == r.calls[1]
        IN  /\ Len(r.calls) = 1
            /\ c.method = "get_orders"
            /\ c.params.limit = r.args.limit
            /\ c.params.status =
                  (IF EqIgnoreCase(r.args.status, <<"o","p","e","n">>)
                   THEN "QueryOrderStatus.OPEN"
                   ELSE IF EqIgnoreCase(r.args.status, <<"c","l","o","s","e","d">>)
                   THEN "QueryOrderStatus.CLOSED"
                   ELSE "QueryOrderStatus.ALL")
            /\ r.failed = "call" => r.result[1] = "Error fetching orders: "

C6_Witness ==
    \E i \in Invs :
        /\ Done(i) /\ inv[i].op = "get_orders" /\ inv[i].failed = "call"
        /\ inv[i].args.status = <<"C","l","o","s","e","d">> /\ inv[i].args.limit = 3
        /\ inv[i].calls[1].params = [status |-> "QueryOrderStatus.CLOSED", limit |-> 3]

\* C7: a backend call that succeeds with nothing to show is not an error:
\* the result is exactly the fixed "no data" sentence of the operation.
C7_EmptyIsNotError ==
    \A i \in Invs : (Done(i) /\ inv[i].resp.kind = "ok") =>
        LET r == inv[i]
            v == r.resp.value
            y == r.args.symbol
        IN  /\ (r.op = "get_positions" /\ Len(v) = 0) =>
                  r.result = <<"No open positions found.">>
            /\ (r.op = "get_orders" /\ Len(v) = 0) =>
                  r.result = <<"No ">> \o r.args.status \o <<" orders found.">>
            /\ (r.op = "get_stock_quote" /\ y \notin DOMAIN v) =>
                  r.result = <<"No quote data found for ">> \o y \o <<".">>
            /\ (r.op = "get_stock_bars" /\ (y \notin DOMAIN v \/ Len(v[y]) = 0)) =>
                  r.result = <<"No historical data found for ">> \o y
                             \o <<" in the last ", "5", " days.">>
            /\ (\/ r.op \in {"get_positions", "get_orders"} /\ Len(v) = 0
                \/ r.op \in DataOps /\ y \notin DOMAIN v
                \/ r.op = "get_stock_bars" /\ y \in DOMAIN v /\ Len(v[y]) = 0) =>
                  r.failed = "none" /\ ~IsErrorText(r)

C7_Witness ==
    \E i \in Invs :
        /\ Done(i) /\ inv[i].op = "get_stock_bars" /\ inv[i].resp.kind = "ok"
        /\ inv[i].args.symbol \in DOMAIN inv[i].resp.value
        /\ Len(inv[i].resp.value[inv[i].args.symbol]) = 0

IsDigit(t) == \E k \in 1..Len(Digits) : Digits[k] = t

\* the tokens from p on are [-]digits "." digit digit, and no further digit
TwoDecimalsAt(text, p) ==
    \E q \in p..Len(text) :
        /\ text[q] = "."
        /\ q > p
        /\ \A k \in p..(q - 1) : IsDigit(text[k]) \/ (k = p /\ text[k] = "-" /\ q > p + 1)
        /\ q + 2 <= Len(text)
        /\ IsDigit(text[q + 1]) /\ IsDigit(text[q + 2])
        /\ q + 3 <= Len(text) => ~IsDigit(text[q + 3])

\* the tokens before p are digit "." digit digit
TwoDecimalsBefore(text, p) ==
    /\ p > 4
    /\ IsDigit(text[p - 1]) /\ IsDigit(text[p - 2]) /\ text[p - 3] = "."
    /\ IsDigit(text[p - 4])

\* what a decimal of the sample set is to read as in a result
ExpectedMoney(v) ==
    CASE v = Dec(1000000) -> <<"$", "1", "0", "0", ".", "0", "0">>
      [] v = Dec(123456)  -> <<"$", "1", "2", ".", "3", "5">>
      [] v = Dec(1501250) -> <<"$", "1", "5", "0", ".", "1", "2">>
      [] v = Dec(50)      -> <<"$", "0", ".", "0", "1">>
      [] v = Dec(-26750)  -> <<"$", "-", "2", ".", "6", "7">>

ReadsAt(text, p, chars) ==
    /\ p + Len(chars) - 1 <= Len(text)
    /\ SubSeq(text, p, p + Len(chars) - 1) = chars

\* C9: every amount after a "$" and every percentage in a result has exactly
\* two decimals; 100 reads "$100.00", 12.3456 "$12.35", 150.125 "$150.12";
\* and the same value reads the same in every operation, half-way values
\* (0.005, 2.675) included.
C9_TwoDecimals ==
    \A i \in Invs : (Done(i) /\ inv[i].failed = "none") =>
        LET r == inv[i]
            t == r.result
            v == r.resp.value
        IN  /\ \A p \in 1..Len(t) :
                  /\ t[p] = "$" => TwoDecimalsAt(t, p + 1)
                  /\ t[p] = "%)\n-------------------\n" => TwoDecimalsBefore(t, p)
            /\ (r.op = "get_stock_quote" /\ r.args.symbol \in DOMAIN v) =>
                  \E d \in MoneyDecs :
                      /\ v[r.args.symbol].ask_price = Float(d)
                      /\ ReadsAt(t, 4, ExpectedMoney(d))
            /\ r.op = "get_account_info" =>
                  ReadsAt(t, 8, ExpectedMoney(v.buying_power))
            /\ (r.op = "get_positions" /\ Len(v) > 0) =>
                  ReadsAt(t, 8, ExpectedMoney(v[1].market_value))
            /\ (r.op = "get_stock_bars" /\ Len(t) > 9) =>
                  \E d \in MoneyDecs :
                      /\ v[r.args.symbol][1].open = Float(d)
                      /\ ReadsAt(t, 10, ExpectedMoney(d))
            /\ (r.op = "place_limit_order") =>
                  \E p \in 1..Len(t) : ReadsAt(t, p, ExpectedMoney(v.limit_price))

C9_Witness ==
    \E i \in Invs :
        /\ Done(i) /\ inv[i].failed = "none" /\ inv[i].op = "get_stock_quote"
        /\ inv[i].args.symbol \in DOMAIN inv[i].resp.value
        /\ inv[i].resp.value[inv[i].args.symbol].ask_price = Float(Dec(1501250))
        /\ ReadsAt(inv[i].result, 4, <<"$", "1", "5", "0", ".", "1", "2">>)

\* C10 as stated: a place-order result that starts with the operation's
\* error prefix means that the invocation's submit_order did not succeed,
\* i.e. no order was created by it.
C10_ErrorMeansNoOrder ==
    \A i \in Invs :
        (/\ Done(i) /\ inv[i].op \in PlaceOps
         /\ inv[i].result[1] \in {"Error placing market order: ",
                                  "Error placing limit order: "}) =>
            inv[i].resp.kind # "ok"

====
